---- MODULE Spec2Model ----
(***************************************************************************)
(* Model of lib_openpose_detector.py: the OpenposeDetector class           *)
(* (parameter builder, engine session, detect, save_joints_positions) and  *)
(* the batch driver test_openpose_on_images.                               *)
(*                                                                         *)
(* Python strings are sequences of one-character strings, so that the      *)
(* substring test ("--" in s) and s.replace('-', '') are computed and not  *)
(* assumed.  Python values that are not strings (True, False, the          *)
(* MODEL_PATH constant whose text depends on the environment) are          *)
(* one-element sequences holding a multi-character atom, so they differ    *)
(* from every string of characters.                                        *)
(***************************************************************************)
EXTENDS Integers, Sequences, FiniteSets, TLC

VARIABLES
    \* ---- parameter builder (_set_openpose_params), one call at a time
    bpc,                \* "idle" | "loop" | "return"
    command_line_args,  \* the argument of the call in progress
    params,             \* the local dict `params`
    bi,                 \* the loop index i of the builder (0-based)
    \* ---- detector sessions and engine wrappers
    detectors,          \* sequence of OpenposeDetector objects
    wrappers,           \* sequence of op.WrapperPython engine instances
    popped,             \* the result the engine popped in the last detect call
    ret,                \* value returned by the last detect call
    ncalls,             \* number of detect / save calls made by the API client
    \* ---- module import and batch driver (test_openpose_on_images)
    pc,                 \* position of the main program
    environ,            \* set of environment variables that are present
    argv,               \* command-line tokens (sys.argv[1:])
    args,               \* result of parse_known_args: <<image_dir, extras>>
    madeDirs,           \* directories created by makedir
    imagePaths,         \* number of image paths returned by the engine helper
    i,                  \* loop index of the batch loop
    color_image,        \* the frame read by cv2.imread
    datum,              \* the datum returned by detect
    key,                \* last value returned by cv2.waitKey
    written,            \* sequence of file names written, in order
    raised              \* the exception that ended the program, or "none"

builderVars == <<bpc, command_line_args, params, bi>>
sessionVars == <<detectors, wrappers, popped, ret, ncalls>>
driverVars  == <<pc, environ, argv, args, madeDirs, imagePaths, i,
                 color_image, datum, key, raised>>
vars == <<bpc, command_line_args, params, bi, detectors, wrappers, popped, ret, ncalls,
          pc, environ, argv, args, madeDirs, imagePaths, i, color_image,
          datum, key, written, raised>>

(***************************************************************************)
(* Bounds                                                                  *)
(***************************************************************************)
MaxArgs == 4        \* longest override list given to the parameter builder
MaxArgv == 2        \* longest command line given to the batch driver
MaxImages == 3      \* most images in the input directory
MaxSessions == 2    \* most detectors an API client constructs
MaxCalls == 2       \* most detect / save calls an API client makes
MaxPersons == 2     \* most persons in one engine result
MaxJoints == 1      \* most joints per body / per hand in one engine result

\* What the engine can pop for one frame: P persons, N body joints, M hand
\* joints.
EngineResults ==
    [P : 0..MaxPersons, N : 1..MaxJoints, M : 1..MaxJoints]
\* Before any detect call.
NoResult == [P |-> 0, N |-> 0, M |-> 0]

(***************************************************************************)
(* Strings                                                                 *)
(***************************************************************************)
Str1 == <<"1">>
PyTrue == <<"True">>
PyFalse == <<"False">>
MODEL_PATH == <<"OPENPOSE_HOME/models/">>

K_model_folder == <<"m","o","d","e","l","_","f","o","l","d","e","r">>
K_face == <<"f","a","c","e">>
K_hand == <<"h","a","n","d">>
K_net_resolution == <<"n","e","t","_","r","e","s","o","l","u","t","i","o","n">>
K_model_pose == <<"m","o","d","e","l","_","p","o","s","e">>
V_320x240 == <<"3","2","0","x","2","4","0">>
V_COCO == <<"C","O","C","O">>

T_face == <<"-","-","f","a","c","e">>
T_hand == <<"-","-","h","a","n","d">>
T_fps_max == <<"-","-","f","p","s","_","m","a","x">>
T_30 == <<"3","0">>
T_out_dir == <<"o","u","t","-","-","d","i","r">>
T_no_display == <<"-","-","n","o","-","d","i","s","p","l","a","y">>
T_image_dir == <<"-","-","i","m","a","g","e","_","d","i","r">>
T_imgs == <<"i","m","g","s">>

\* Tokens an override list is drawn from.
Tokens == {T_face, T_hand, T_fps_max, T_30, T_out_dir, T_no_display}
\* Tokens a command line of the batch driver is drawn from.
ArgvTokens == {T_image_dir, T_imgs, T_fps_max, T_30}

SeqsUpTo(S, n) == UNION {[1..m -> S] : m \in 0..n}

\* `"--" in s`
HasMarker(s) == \E j \in 1..(Len(s) - 1) : s[j] = "-" /\ s[j+1] = "-"

\* s.replace('-', '')
RemoveHyphens(s) == SelectSeq(s, LAMBDA c : c # "-")

\* s.startswith("--")
StartsWithMarker(s) == Len(s) >= 2 /\ s[1] = "-" /\ s[2] = "-"

\* s without its leading "--"
StripMarker(s) == SubSeq(s, 3, Len(s))

(***************************************************************************)
(* Parameter builder: OpenposeDetector._set_openpose_params                *)
(***************************************************************************)
DefaultParams ==
    (K_model_folder :> MODEL_PATH) @@ (K_face :> PyFalse) @@ (K_hand :> PyTrue)
    @@ (K_net_resolution :> V_320x240) @@ (K_model_pose :> V_COCO)

\* The list the loop runs over: args[1] (Python 0-based), the second element.
Overrides(cla) == cla[2]

\* Variant of NextItem: the last token gets the empty string as next_item.
NextItem_Empty(l, n) == IF n # Len(l) - 1 THEN l[n + 2] ELSE <<>>
\* next_item for loop index n (0-based) over list l.
NextItem(l, n) == IF n # Len(l) - 1 THEN l[n + 2] ELSE Str1

\* Variant of SetIfAbsent: the assignment without its guard (last writer wins).
SetIfAbsent_Overwrite(p, k, v) ==
    [x \in (DOMAIN p) \cup {k} |-> IF x = k THEN v ELSE p[x]]
\* `if key not in params: params[key] = val`
SetIfAbsent(p, k, v) == IF k \in DOMAIN p THEN p ELSE p @@ (k :> v)

\* One iteration of the for loop, index n (0-based), on dict p.
LoopBody(p, l, n) ==
    LET curr_item == l[n + 1]
        next_item == NextItem(l, n)
    IN  IF HasMarker(curr_item) /\ HasMarker(next_item)
        THEN SetIfAbsent(p, RemoveHyphens(curr_item), Str1)
        ELSE IF HasMarker(curr_item) /\ ~HasMarker(next_item)
        THEN SetIfAbsent(p, RemoveHyphens(curr_item), next_item)
        ELSE p

RECURSIVE RunLoop(_, _, _)
RunLoop(p, l, n) == IF n >= Len(l) THEN p ELSE RunLoop(LoopBody(p, l, n), l, n + 1)

\* The whole function.  command_line_args is [] (falsy) or <<namespace, list>>.
SetOpenposeParams(cla) ==
    IF Len(cla) = 0 THEN DefaultParams ELSE RunLoop(DefaultParams, Overrides(cla), 0)

\* Arguments a direct caller of the builder may pass.
BuilderArgs == {<<>>} \cup {<<"Namespace", l>> : l \in SeqsUpTo(Tokens, MaxArgs)}

\* Entry of the function: the defaults are set (lines 88-93) and the argument
\* is tested (line 96).
BCall ==
    /\ bpc = "idle"
    /\ \E a \in BuilderArgs :
          /\ command_line_args' = a
          /\ bpc' = IF Len(a) = 0 THEN "return" ELSE "loop"
    /\ params' = DefaultParams
    /\ bi' = 0
    /\ UNCHANGED <<sessionVars, driverVars, written>>

BIter ==
    /\ bpc = "loop"
    /\ bi < Len(Overrides(command_line_args))
    /\ params' = LoopBody(params, Overrides(command_line_args), bi)
    /\ bi' = bi + 1
    /\ UNCHANGED <<bpc, command_line_args, sessionVars, driverVars, written>>

BLoopEnd ==
    /\ bpc = "loop"
    /\ bi >= Len(Overrides(command_line_args))
    /\ bpc' = "return"
    /\ UNCHANGED <<command_line_args, params, bi, sessionVars, driverVars, written>>

EmptyDict == [x \in {} |-> <<>>]

\* `return params`: the value in `params` is handed to the caller and the
\* frame's locals are dropped.
BReturn ==
    /\ bpc = "return"
    /\ bpc' = "idle"
    /\ command_line_args' = <<>>
    /\ params' = EmptyDict
    /\ bi' = 0
    /\ UNCHANGED <<sessionVars, driverVars, written>>

InitBuilder ==
    /\ bpc = "idle"
    /\ command_line_args = <<>>
    /\ params = EmptyDict
    /\ bi = 0

InitSession ==
    /\ detectors = <<>>
    /\ wrappers = <<>>
    /\ popped = NoResult
    /\ ret = [kind |-> "none"]
    /\ ncalls = 0

InitDriverIdle ==
    /\ pc = "not_run"
    /\ environ = {}
    /\ argv = <<>>
    /\ args = <<>>
    /\ madeDirs = {}
    /\ imagePaths = 0
    /\ i = 0
    /\ color_image = -1
    /\ datum = [kind |-> "none"]
    /\ key = -1
    /\ raised = "none"

InitParams == InitBuilder /\ InitSession /\ InitDriverIdle /\ written = <<>>

NextParams ==
    \/ BCall
    \/ BIter
    \/ BLoopEnd
    \/ BReturn

SpecParams == InitParams /\ [][NextParams]_vars

(***************************************************************************)
(* Detector session: OpenposeDetector.__init__, detect,                    *)
(* save_joints_positions                                                   *)
(***************************************************************************)
\* The detector whose construction is in progress, or 0.
Constructing ==
    IF Len(detectors) > 0 /\ detectors[Len(detectors)].stage \in {"wrapper", "configure", "start"}
    THEN Len(detectors) ELSE 0

LogCall(w, op, outcome) ==
    [wrappers EXCEPT ![w].calls = Append(@, <<op, outcome>>)]

\* `self._params = self._set_openpose_params()`: called without arguments, so
\* command_line_args is the default [].
NewDetector ==
    /\ detectors' = Append(detectors,
          [stage |-> "wrapper", _params |-> SetOpenposeParams(<<>>), _opWrapper |-> 0])
    /\ UNCHANGED <<wrappers, popped, ret>>

\* `self._opWrapper = op.WrapperPython()`
InitWrapper(d) ==
    /\ detectors[d].stage = "wrapper"
    /\ wrappers' = Append(wrappers,
          [calls |-> <<>>, params |-> EmptyDict])
    /\ detectors' = [detectors EXCEPT ![d]._opWrapper = Len(wrappers) + 1,
                                      ![d].stage = "configure"]
    /\ UNCHANGED <<popped, ret>>

\* `self._opWrapper.configure(self._params)` returns.
InitConfigureOk(d) ==
    /\ detectors[d].stage = "configure"
    /\ wrappers' = [LogCall(detectors[d]._opWrapper, "configure", "ok")
                       EXCEPT ![detectors[d]._opWrapper].params = detectors[d]._params]
    /\ detectors' = [detectors EXCEPT ![d].stage = "start"]
    /\ UNCHANGED <<popped, ret>>

\* `self._opWrapper.configure(self._params)` raises: __init__ is left.
InitConfigureRaise(d) ==
    /\ detectors[d].stage = "configure"
    /\ wrappers' = LogCall(detectors[d]._opWrapper, "configure", "raise")
    /\ detectors' = [detectors EXCEPT ![d].stage = "failed"]
    /\ UNCHANGED <<popped, ret>>

\* Variant of InitStartOk: the constructor returns without calling start.
InitStartSkipped(d) ==
    /\ detectors[d].stage = "start"
    /\ detectors' = [detectors EXCEPT ![d].stage = "ready"]
    /\ UNCHANGED <<wrappers, popped, ret>>
\* `self._opWrapper.start()` returns: the constructor returns the detector.
InitStartOk(d) ==
    /\ detectors[d].stage = "start"
    /\ wrappers' = LogCall(detectors[d]._opWrapper, "start", "ok")
    /\ detectors' = [detectors EXCEPT ![d].stage = "ready"]
    /\ UNCHANGED <<popped, ret>>

\* `self._opWrapper.start()` raises: __init__ is left.
InitStartRaise(d) ==
    /\ detectors[d].stage = "start"
    /\ wrappers' = LogCall(detectors[d]._opWrapper, "start", "raise")
    /\ detectors' = [detectors EXCEPT ![d].stage = "failed"]
    /\ UNCHANGED <<popped, ret>>

\* Arrays are modelled by their shapes.
\* np.array(a) of an array a.
NpArray(a) == a
\* np.array(l) of a list l of equally shaped arrays.
NpArrayOfList(l) == <<Len(l)>> \o l[1]
\* np.swapaxes(a, ax1, ax2): a new view, axes 0-based.
SwapAxes(a, ax1, ax2) ==
    [n \in 1..Len(a) |-> IF n = ax1 + 1 THEN a[ax2 + 1]
                         ELSE IF n = ax2 + 1 THEN a[ax1 + 1] ELSE a[n]]

\* The datum after emplaceAndPop filled it for frame img with result r.
FilledDatum(img, r) ==
    [kind |-> "datum",
     cvInputData |-> img,
     poseKeypoints |-> <<r.P, r.N, 3>>,
     handKeypoints |-> << <<r.P, r.M, 3>>, <<r.P, r.M, 3>> >>,
     cvOutputData |-> img]

\* What detect returns after emplaceAndPop.  The view np.swapaxes returns is
\* not assigned to anything.
DetectReturn(d, is_return_joints) ==
    IF is_return_joints
    THEN LET body_joints == NpArray(d.poseKeypoints)
             hand_joints == NpArrayOfList(d.handKeypoints)
             discarded == SwapAxes(hand_joints, 0, 1)
         IN  [kind |-> "joints", body_joints |-> body_joints, hand_joints |-> hand_joints]
    ELSE d

\* detect on a constructed detector; the engine pops result r.
DetectOk(d, color, is_return_joints, r) ==
    /\ detectors[d].stage = "ready"
    /\ wrappers' = LogCall(detectors[d]._opWrapper, "emplaceAndPop", "ok")
    /\ popped' = r
    /\ ret' = DetectReturn(FilledDatum(color, r), is_return_joints)
    /\ UNCHANGED detectors

\* detect on a constructed detector; the engine raises in emplaceAndPop and
\* detect has no handler.
DetectRaise(d) ==
    /\ detectors[d].stage = "ready"
    /\ wrappers' = LogCall(detectors[d]._opWrapper, "emplaceAndPop", "raise")
    /\ UNCHANGED <<detectors, popped, ret>>

\* save_joints_positions: two np.save calls, body first.
SaveJointsPositions(pose_filename, hand_filename) ==
    written' = written \o <<pose_filename, hand_filename>>

\* The decimal digits of n, and a digit sequence zero-padded to a width.
RECURSIVE Digits(_)
Digits(n) == IF n < 10 THEN <<n>> ELSE Append(Digits(n \div 10), n % 10)
RECURSIVE ZeroPad(_, _)
ZeroPad(ds, width) == IF Len(ds) >= width THEN ds ELSE ZeroPad(<<0>> \o ds, width)
\* Variant of Format05d: width 4.
Format04d(n) == ZeroPad(Digits(n), 4)
\* "{:05d}".format(n)
Format05d(n) == ZeroPad(Digits(n), 5)

(***************************************************************************)
(* An API client: constructs detectors and calls their public operations   *)
(* in any order, one call at a time.                                       *)
(***************************************************************************)
ClientFiles == {<<Format05d(0), "body_joints.npy">>, <<Format05d(0), "hand_joints.npy">>}
othersOfSession == <<builderVars, driverVars>>

SNew ==
    /\ Constructing = 0
    /\ Len(detectors) < MaxSessions
    /\ NewDetector
    /\ UNCHANGED <<ncalls, written, othersOfSession>>

SInitWrapper ==
    /\ Constructing # 0
    /\ InitWrapper(Constructing)
    /\ UNCHANGED <<ncalls, written, othersOfSession>>

SInitConfigure ==
    /\ Constructing # 0
    /\ (InitConfigureOk(Constructing) \/ InitConfigureRaise(Constructing))
    /\ UNCHANGED <<ncalls, written, othersOfSession>>

SInitStart ==
    /\ Constructing # 0
    /\ (InitStartOk(Constructing) \/ InitStartRaise(Constructing))
    /\ UNCHANGED <<ncalls, written, othersOfSession>>

SDetect ==
    /\ Constructing = 0
    /\ ncalls < MaxCalls
    /\ \E d \in 1..Len(detectors) :
          \/ \E flag \in BOOLEAN, r \in EngineResults : DetectOk(d, 0, flag, r)
          \/ DetectRaise(d)
    /\ ncalls' = ncalls + 1
    /\ UNCHANGED <<written, othersOfSession>>

SSave ==
    /\ Constructing = 0
    /\ ncalls < MaxCalls
    /\ \E d \in 1..Len(detectors) : detectors[d].stage = "ready"
    /\ \E f \in ClientFiles, g \in ClientFiles : SaveJointsPositions(f, g)
    /\ ncalls' = ncalls + 1
    /\ UNCHANGED <<detectors, wrappers, popped, ret, othersOfSession>>

InitClient == InitBuilder /\ InitSession /\ InitDriverIdle /\ written = <<>>

NextSession ==
    \/ SNew
    \/ SInitWrapper
    \/ SInitConfigure
    \/ SInitStart
    \/ SDetect
    \/ SSave

SpecSession == InitClient /\ [][NextSession]_vars

(***************************************************************************)
(* Module import and the batch driver test_openpose_on_images              *)
(***************************************************************************)
EnvVars == {"OPENPOSE_PYTHONPATH", "OPENPOSE_HOME"}
DefaultImageDir == <<"ROOT/data/image1/">>
DST_FOLDER == <<"ROOT/output/">>
QuitKey == 27
\* Values cv2.waitKey(15) can return: no key, the quit key, another key.
Keys == {-1, QuitKey, 32}

\* parser.parse_known_args() with the one option --image_dir: the option takes
\* the token after it (which must not look like an option); every other token
\* goes to the list of extras in order.
RECURSIVE ScanArgs(_, _, _, _)
ScanArgs(toks, n, dir, extras) ==
    IF n > Len(toks) THEN [ok |-> TRUE, image_dir |-> dir, extras |-> extras]
    ELSE IF toks[n] = T_image_dir
    THEN IF n = Len(toks) \/ toks[n + 1][1] = "-"
         THEN [ok |-> FALSE, image_dir |-> dir, extras |-> extras]
         ELSE ScanArgs(toks, n + 2, toks[n + 1], extras)
    ELSE ScanArgs(toks, n + 1, dir, Append(extras, toks[n]))
ParseKnownArgs(toks) == ScanArgs(toks, 1, DefaultImageDir, <<>>)

\* The three files of frame n, in the order they are written.
FrameFiles(n) ==
    << <<Format05d(n), "body_joints.npy">>,
       <<Format05d(n), "hand_joints.npy">>,
       <<Format05d(n), "result.jpg">> >>

Crash(e) == pc' = "crashed" /\ raised' = e

\* line 15: os.environ['OPENPOSE_PYTHONPATH']
ImportPythonPath ==
    /\ pc = "import_pythonpath"
    /\ IF "OPENPOSE_PYTHONPATH" \in environ
       THEN pc' = "import_openpose" /\ UNCHANGED raised
       ELSE Crash("KeyError")
    /\ UNCHANGED <<environ, argv, args, madeDirs, imagePaths, i, color_image,
                   datum, key, written, builderVars, sessionVars>>

\* line 17: from openpose import pyopenpose; fails when the path holds no engine.
ImportOpenpose ==
    /\ pc = "import_openpose"
    /\ \/ pc' = "read_home" /\ UNCHANGED raised
       \/ Crash("ImportError")
    /\ UNCHANGED <<environ, argv, args, madeDirs, imagePaths, i, color_image,
                   datum, key, written, builderVars, sessionVars>>

\* Variant of ReadHome: an absent variable is tolerated.
ReadHomeWithDefault ==
    /\ pc = "read_home"
    /\ pc' = "parse_args"
    /\ UNCHANGED <<raised, environ, argv, args, madeDirs, imagePaths, i, color_image,
                   datum, key, written, builderVars, sessionVars>>
\* line 22: os.environ['OPENPOSE_HOME']
ReadHome ==
    /\ pc = "read_home"
    /\ IF "OPENPOSE_HOME" \in environ
       THEN pc' = "parse_args" /\ UNCHANGED raised
       ELSE Crash("KeyError")
    /\ UNCHANGED <<environ, argv, args, madeDirs, imagePaths, i, color_image,
                   datum, key, written, builderVars, sessionVars>>

\* line 138: args = parse_args()
ParseArgs ==
    /\ pc = "parse_args"
    /\ LET r == ParseKnownArgs(argv)
       IN  IF r.ok
           THEN /\ args' = <<[image_dir |-> r.image_dir], r.extras>>
                /\ pc' = "construct"
                /\ UNCHANGED raised
           ELSE /\ Crash("SystemExit")
                /\ UNCHANGED args
    /\ UNCHANGED <<environ, argv, madeDirs, imagePaths, i, color_image,
                   datum, key, written, builderVars, sessionVars>>

\* line 141: detector = OpenposeDetector(), up to line 30
Construct ==
    /\ pc = "construct"
    /\ NewDetector
    /\ pc' = "init_wrapper"
    /\ UNCHANGED <<raised, environ, argv, args, madeDirs, imagePaths, i, color_image,
                   datum, key, written, builderVars, ncalls>>

\* line 31
ConstructWrapper ==
    /\ pc = "init_wrapper"
    /\ InitWrapper(Len(detectors))
    /\ pc' = "init_configure"
    /\ UNCHANGED <<raised, environ, argv, args, madeDirs, imagePaths, i, color_image,
                   datum, key, written, builderVars, ncalls>>

\* line 32
ConstructConfigure ==
    /\ pc = "init_configure"
    /\ \/ InitConfigureOk(Len(detectors)) /\ pc' = "init_start" /\ UNCHANGED raised
       \/ InitConfigureRaise(Len(detectors)) /\ Crash("EngineError")
    /\ UNCHANGED <<environ, argv, args, madeDirs, imagePaths, i, color_image,
                   datum, key, written, builderVars, ncalls>>

\* line 33
ConstructStart ==
    /\ pc = "init_start"
    /\ \/ InitStartOk(Len(detectors)) /\ pc' = "makedir" /\ UNCHANGED raised
       \/ InitStartRaise(Len(detectors)) /\ Crash("EngineError")
    /\ UNCHANGED <<environ, argv, args, madeDirs, imagePaths, i, color_image,
                   datum, key, written, builderVars, ncalls>>

\* line 142: makedir(DST_FOLDER)
MakeDir ==
    /\ pc = "makedir"
    /\ madeDirs' = madeDirs \cup {DST_FOLDER}
    /\ pc' = "get_images"
    /\ UNCHANGED <<raised, environ, argv, args, imagePaths, i, color_image,
                   datum, key, written, builderVars, sessionVars>>

\* line 145: the directory holds some number of images
GetImages ==
    /\ pc = "get_images"
    /\ \E n \in 0..MaxImages : imagePaths' = n
    /\ i' = 0
    /\ pc' = "for"
    /\ UNCHANGED <<raised, environ, argv, args, madeDirs, color_image,
                   datum, key, written, builderVars, sessionVars>>

\* line 146: the next element of enumerate(imagePaths), or the end of the loop
ForNext ==
    /\ pc = "for"
    /\ pc' = IF i < imagePaths THEN "imread" ELSE "done"
    /\ UNCHANGED <<raised, environ, argv, args, madeDirs, imagePaths, i, color_image,
                   datum, key, written, builderVars, sessionVars>>

\* line 150: cv2.imread gives the frame, or None (-1) for an unreadable file
ImRead ==
    /\ pc = "imread"
    /\ color_image' \in {i, -1}
    /\ pc' = "detect"
    /\ UNCHANGED <<raised, environ, argv, args, madeDirs, imagePaths, i,
                   datum, key, written, builderVars, sessionVars>>

\* Variant of DetectStep: an engine error skips the frame and the loop goes on.
DetectStepSkipOnError ==
    /\ pc = "detect"
    /\ \/ /\ \E r \in EngineResults : DetectOk(Len(detectors), color_image, FALSE, r)
          /\ datum' = ret'
          /\ pc' = "save"
          /\ UNCHANGED i
       \/ /\ DetectRaise(Len(detectors))
          /\ pc' = "for"
          /\ i' = i + 1
          /\ UNCHANGED datum
    /\ UNCHANGED <<raised, environ, argv, args, madeDirs, imagePaths, color_image,
                   key, written, builderVars, ncalls>>
\* line 153: datum = detector.detect(color_image); an error is not handled.
DetectStep ==
    /\ pc = "detect"
    /\ \/ /\ \E r \in EngineResults : DetectOk(Len(detectors), color_image, FALSE, r)
          /\ datum' = ret'
          /\ pc' = "save"
          /\ UNCHANGED raised
       \/ /\ DetectRaise(Len(detectors))
          /\ Crash("EngineError")
          /\ UNCHANGED datum
    /\ UNCHANGED <<environ, argv, args, madeDirs, imagePaths, i, color_image,
                   key, written, builderVars, ncalls>>

\* lines 158-164: detector.save_joints_positions(datum, filename_body, filename_hand)
SaveStep ==
    /\ pc = "save"
    /\ SaveJointsPositions(FrameFiles(i)[1], FrameFiles(i)[2])
    /\ pc' = "imwrite"
    /\ UNCHANGED <<raised, environ, argv, args, madeDirs, imagePaths, i, color_image,
                   datum, key, builderVars, sessionVars>>

\* lines 166-167: cv2.imwrite(filename_image, datum.cvOutputData)
ImWrite ==
    /\ pc = "imwrite"
    /\ written' = Append(written, FrameFiles(i)[3])
    /\ pc' = "waitKey"
    /\ UNCHANGED <<raised, environ, argv, args, madeDirs, imagePaths, i, color_image,
                   datum, key, builderVars, sessionVars>>

\* Variant of WaitKey: the loop goes on whatever the key.
WaitKeyNoBreak ==
    /\ pc = "waitKey"
    /\ \E k \in Keys : key' = k
    /\ pc' = "for"
    /\ i' = i + 1
    /\ UNCHANGED <<raised, environ, argv, args, madeDirs, imagePaths, color_image,
                   datum, written, builderVars, sessionVars>>
\* lines 171-174: show the frame, read a key, break on the quit key
WaitKey ==
    /\ pc = "waitKey"
    /\ \E k \in Keys :
          /\ key' = k
          /\ IF k = QuitKey
             THEN pc' = "done" /\ UNCHANGED i
             ELSE pc' = "for" /\ i' = i + 1
    /\ UNCHANGED <<raised, environ, argv, args, madeDirs, imagePaths, color_image,
                   datum, written, builderVars, sessionVars>>

Init ==
    /\ InitBuilder
    /\ InitSession
    /\ pc = "import_pythonpath"
    /\ environ \in SUBSET EnvVars
    /\ argv \in SeqsUpTo(ArgvTokens, MaxArgv)
    /\ args = <<>>
    /\ madeDirs = {}
    /\ imagePaths = 0
    /\ i = 0
    /\ color_image = -1
    /\ datum = [kind |-> "none"]
    /\ key = -1
    /\ raised = "none"
    /\ written = <<>>

Next ==
    \/ ImportPythonPath
    \/ ImportOpenpose
    \/ ReadHome
    \/ ParseArgs
    \/ Construct
    \/ ConstructWrapper
    \/ ConstructConfigure
    \/ ConstructStart
    \/ MakeDir
    \/ GetImages
    \/ ForNext
    \/ ImRead
    \/ DetectStep
    \/ SaveStep
    \/ ImWrite
    \/ WaitKey

Spec == Init /\ [][Next]_vars

(***************************************************************************)
(* Claims about the parameter builder (checked under SpecParams)           *)
(***************************************************************************)
\* The override list of the call in progress (empty for the default argument).
CallList == IF Len(command_line_args) = 0 THEN <<>> ELSE Overrides(command_line_args)

\* Token number n (1-based) of list l names key k.
Names(l, n, k) == HasMarker(l[n]) /\ RemoveHyphens(l[n]) = k

\* The value token number n (1-based) of list l offers for its key.
Offered(l, n) ==
    IF n = Len(l) THEN Str1
    ELSE IF HasMarker(l[n + 1]) THEN Str1 ELSE l[n + 1]

\* The first token of l that names k (k is named by some token of l).
FirstNaming(l, k) ==
    CHOOSE n \in 1..Len(l) :
        Names(l, n, k) /\ \A m \in 1..(n - 1) : ~Names(l, m, k)

C1_End ==
    bpc = "return" =>
        /\ \A k \in DOMAIN DefaultParams :
              k \in DOMAIN params /\ params[k] = DefaultParams[k]
        /\ \A k \in (DOMAIN params) \ (DOMAIN DefaultParams) :
              /\ \E n \in 1..Len(CallList) : Names(CallList, n, k)
              /\ params[k] = Offered(CallList, FirstNaming(CallList, k))

\* C1: every default key keeps its default value in the returned
\* configuration, no iteration of the loop changes a key that is already set
\* (first writer wins), and a key absent from the defaults has the value
\* offered by the first override token that names it.
C1_FirstWriterWins ==
    [][ /\ (bpc = "loop" =>
               \A k \in DOMAIN params :
                   k \in DOMAIN params' /\ params'[k] = params[k])
        /\ C1_End' ]_vars

\* A returned configuration built from a list that names a default key and
\* names one new key twice with different offered values.
C1_Witness ==
    /\ bpc = "return"
    /\ \E n \in 1..Len(CallList) :
          RemoveHyphens(CallList[n]) \in DOMAIN DefaultParams /\ HasMarker(CallList[n])
    /\ \E n, m \in 1..Len(CallList) :
          /\ n < m
          /\ HasMarker(CallList[n])
          /\ Names(CallList, m, RemoveHyphens(CallList[n]))
          /\ RemoveHyphens(CallList[n]) \notin DOMAIN DefaultParams
          /\ Offered(CallList, n) # Offered(CallList, m)

\* The last token of the call's list is a flag with no trailing value.
EndsInFlag == Len(CallList) > 0 /\ StartsWithMarker(CallList[Len(CallList)])
LastKey == RemoveHyphens(CallList[Len(CallList)])

\* C2 as stated: whenever the override list ends in a flag with no trailing
\* value, the returned configuration maps that flag's key to "1".
C2_Original ==
    (bpc = "return" /\ EndsInFlag) =>
        (LastKey \in DOMAIN params /\ params[LastKey] = Str1)

\* C2 amended: when the override list ends in a flag with no trailing value,
\* the returned configuration maps that flag's key to "1" if the key is not a
\* default and no earlier token names it; a default key keeps its default and
\* a key named earlier keeps the value its first naming token offered.
C2_Amended ==
    (bpc = "return" /\ EndsInFlag) =>
        /\ LastKey \in DOMAIN params
        /\ params[LastKey] =
              IF LastKey \in DOMAIN DefaultParams THEN DefaultParams[LastKey]
              ELSE IF \E m \in 1..(Len(CallList) - 1) : Names(CallList, m, LastKey)
              THEN Offered(CallList, FirstNaming(CallList, LastKey))
              ELSE Str1

\* A returned configuration whose list ends in a flag for a key that is new.
C2_Witness ==
    /\ bpc = "return"
    /\ EndsInFlag
    /\ LastKey \notin DOMAIN DefaultParams
    /\ \A m \in 1..(Len(CallList) - 1) : ~Names(CallList, m, LastKey)
    /\ params[LastKey] = Str1

\* C9 as stated: a loop iteration adds a key only for a token that begins with
\* "--"; the key is the token without its leading marker; its value is the
\* following token when that token does not begin with the marker and "1"
\* when it does; a token that does not begin with the marker adds no key.
C9_Original ==
    [][ (bpc = "loop" /\ bi < Len(CallList)) =>
          LET curr == CallList[bi + 1]
          IN  /\ (~StartsWithMarker(curr) => DOMAIN params' = DOMAIN params)
              /\ \A k \in (DOMAIN params') \ (DOMAIN params) :
                    /\ StartsWithMarker(curr)
                    /\ k = StripMarker(curr)
                    /\ (bi + 1 < Len(CallList) =>
                          params'[k] = IF StartsWithMarker(CallList[bi + 2])
                                       THEN Str1 ELSE CallList[bi + 2]) ]_vars

(***************************************************************************)
(* Claims about the batch driver (checked under Spec)                      *)
(***************************************************************************)
\* Number of calls of operation op in call log c, whatever their outcome.
Count(c, op) == Cardinality({n \in 1..Len(c) : c[n][1] = op})
\* Number of calls of operation op in call log c that returned.
CountOk(c, op) == Cardinality({n \in 1..Len(c) : c[n] = <<op, "ok">>})

\* The extras parse_known_args left over (empty before parsing).
Extras == IF Len(args) = 0 THEN <<>> ELSE args[2]

\* C3 as stated: every flag among the command-line tokens left over by the
\* --image_dir parser whose key is absent from the defaults is a key of the
\* configuration passed to the engine's configure call.
C3_Original ==
    \A w \in 1..Len(wrappers) :
        CountOk(wrappers[w].calls, "configure") > 0 =>
            \A n \in 1..Len(Extras) :
                (StartsWithMarker(Extras[n])
                   /\ RemoveHyphens(Extras[n]) \notin DOMAIN DefaultParams)
                => RemoveHyphens(Extras[n]) \in DOMAIN wrappers[w].params

\* The value a sequence of decimal digits denotes.
RECURSIVE DecimalValue(_)
DecimalValue(ds) ==
    IF Len(ds) = 0 THEN 0
    ELSE 10 * DecimalValue(SubSeq(ds, 1, Len(ds) - 1)) + ds[Len(ds)]

\* f is the file of the given kind whose prefix is the 5-digit zero-padded n.
IsFileOf(f, n, kind) ==
    /\ f[2] = kind
    /\ Len(f[1]) = 5
    /\ \A j \in 1..5 : f[1][j] \in 0..9
    /\ DecimalValue(f[1]) = n

\* written[from+1 .. from+3] are the body, hand and image files of frame n.
FrameWrittenAt(from, n) ==
    /\ Len(written) >= from + 3
    /\ IsFileOf(written[from + 1], n, "body_joints.npy")
    /\ IsFileOf(written[from + 2], n, "hand_joints.npy")
    /\ IsFileOf(written[from + 3], n, "result.jpg")

\* written holds exactly the files of frames 0..n-1, frame by frame.
WrittenIsFrames(n) ==
    /\ Len(written) = 3 * n
    /\ \A m \in 0..(n - 1) : FrameWrittenAt(3 * m, m)
    /\ Cardinality({written[j] : j \in 1..Len(written)}) = 3 * n

\* The call log of the driver's engine (empty before the engine exists).
DriverCalls == IF Len(wrappers) = 0 THEN <<>> ELSE wrappers[1].calls

\* C5: when the loop ends with no error and no quit key, the driver has made
\* exactly N detect calls and written exactly 3*N files: for each i < N the
\* body, hand and image file with the 5-digit zero-padded prefix of i; for
\* N = 0 no detect call and no file.
C5_BatchOutputs ==
    (pc = "done" /\ raised = "none" /\ key # QuitKey) =>
        /\ Count(DriverCalls, "emplaceAndPop") = imagePaths
        /\ WrittenIsFrames(imagePaths)

\* A batch over a full directory that ended with no quit key.
C5_Witness ==
    /\ pc = "done"
    /\ raised = "none"
    /\ key # QuitKey
    /\ imagePaths = 3
    /\ Len(written) = 9

\* C6: the key is read only at the end of a frame; when the quit key is read
\* after frame i, frame i has been detected and its three files written; once
\* the quit key has been read no frame is read, detected or persisted.
C6_QuitBetweenFrames ==
    [][ /\ (key' # key => pc = "waitKey")
        /\ ((pc = "waitKey" /\ key' = QuitKey) =>
               /\ CountOk(DriverCalls, "emplaceAndPop") = i + 1
               /\ datum.cvInputData = color_image
               /\ WrittenIsFrames(i + 1))
        /\ (key = QuitKey =>
               UNCHANGED <<color_image, wrappers, datum, written, i>>) ]_vars

\* The quit key was read while frames were still left in the directory.
C6_Witness ==
    /\ pc = "done"
    /\ key = QuitKey
    /\ i >= 1
    /\ i + 1 < imagePaths

\* The engine raised during a detect call of the driver.
RaisedInDetect ==
    \E n \in 1..Len(DriverCalls) : DriverCalls[n] = <<"emplaceAndPop", "raise">>

\* C7: when the engine raises during the detect call for frame i the program
\* ends with that error: the raising call is the engine's last call, the
\* files written are exactly those of frames 0..i-1, and exactly i detect
\* calls returned.
C7_DetectErrorAborts ==
    RaisedInDetect =>
        /\ pc = "crashed"
        /\ raised = "EngineError"
        /\ DriverCalls[Len(DriverCalls)] = <<"emplaceAndPop", "raise">>
        /\ Count(DriverCalls, "emplaceAndPop") = i + 1
        /\ CountOk(DriverCalls, "emplaceAndPop") = i
        /\ WrittenIsFrames(i)

\* The engine raised on a frame with frames before it and frames after it.
C7_Witness ==
    /\ RaisedInDetect
    /\ pc = "crashed"
    /\ i >= 1
    /\ i + 1 < imagePaths

\* No detector, engine, output file or directory exists.
NothingStarted ==
    /\ detectors = <<>>
    /\ wrappers = <<>>
    /\ written = <<>>
    /\ madeDirs = {}

\* C8: when one of the two environment variables is absent, the read of the
\* absent variable ends the program with KeyError, and no detector, engine
\* call, output file or directory ever exists.
C8_MissingEnvIsFatal ==
    [][ environ # EnvVars =>
          /\ NothingStarted'
          /\ pc' \in {"import_openpose", "read_home", "crashed"}
          /\ ((pc = "import_pythonpath" /\ "OPENPOSE_PYTHONPATH" \notin environ)
                 => (pc' = "crashed" /\ raised' = "KeyError"))
          /\ ((pc = "read_home" /\ "OPENPOSE_HOME" \notin environ)
                 => (pc' = "crashed" /\ raised' = "KeyError")) ]_vars

\* The program ended at the read of OPENPOSE_HOME, the other variable present.
C8_Witness ==
    /\ pc = "crashed"
    /\ raised = "KeyError"
    /\ environ = {"OPENPOSE_PYTHONPATH"}

(***************************************************************************)
(* Claims about the detector session (checked under SpecSession)           *)
(***************************************************************************)
\* C4: on every engine, configure is called at most once, start at most once
\* and only after configure returned, emplaceAndPop only after start
\* returned; a constructed detector has its own engine, on which configure
\* and start were each called exactly once.
C4_Lifecycle ==
    /\ \A w \in 1..Len(wrappers) :
          LET c == wrappers[w].calls
          IN  /\ Count(c, "configure") <= 1
              /\ Count(c, "start") <= 1
              /\ \A n \in 1..Len(c) :
                    /\ c[n][1] = "start" =>
                          \E m \in 1..(n - 1) : c[m] = <<"configure", "ok">>
                    /\ c[n][1] = "emplaceAndPop" =>
                          \E m \in 1..(n - 1) : c[m] = <<"start", "ok">>
    /\ \A d \in 1..Len(detectors) :
          detectors[d].stage = "ready" =>
              /\ detectors[d]._opWrapper \in 1..Len(wrappers)
              /\ CountOk(wrappers[detectors[d]._opWrapper].calls, "configure") = 1
              /\ CountOk(wrappers[detectors[d]._opWrapper].calls, "start") = 1
    /\ \A d, e \in 1..Len(detectors) :
          (d # e /\ detectors[d]._opWrapper # 0)
              => detectors[d]._opWrapper # detectors[e]._opWrapper

\* Two constructed detectors, one of which has served two detect calls.
C4_Witness ==
    /\ Len(detectors) = 2
    /\ \A d \in 1..2 : detectors[d].stage = "ready"
    /\ \E w \in 1..Len(wrappers) : Count(wrappers[w].calls, "emplaceAndPop") = 2

\* C10 as stated: detect(color_image, is_return_joints=True) on an engine
\* result with P persons, N body joints and M hand joints returns body_joints
\* of shape [P, N, 3] and hand_joints of shape [P, 2, M, 3].
C10_Original ==
    ret.kind = "joints" =>
        /\ popped \in EngineResults
        /\ ret.body_joints = <<popped.P, popped.N, 3>>
        /\ ret.hand_joints = <<popped.P, 2, popped.M, 3>>

====
